---- MODULE Spec2Model ----
(***************************************************************************)
(* Model of the estree-detect-requires AST walker (src/walk.rs).           *)
(*                                                                         *)
(* A tree node is a record [cat, kind, kids]: cat is the easter type of    *)
(* the node (Script, Stmt, Decl, Expr, Fun, Dtor, ...), kind is the enum   *)
(* variant, kids are the fields that hold nodes, in the order the source   *)
(* destructures them.  A node is identified by its path: the sequence of   *)
(* child indices leading to it from the Script.                            *)
(*                                                                         *)
(* The recursion of the walker is modelled by a continuation: todo[w] is   *)
(* the sequence of calls still to be made by walker w, innermost first.    *)
(* Every walk_* function is one action that replaces the call at the head  *)
(* of todo[w] by the calls its body makes, in the order it makes them.     *)
(***************************************************************************)
EXTENDS Naturals, Sequences, FiniteSets

VARIABLES ast, phase, todo, callbacks, seed, result

vars == <<ast, phase, todo, callbacks, seed, result>>

(***************************************************************************)
(* Bounds of the model.                                                    *)
(***************************************************************************)
\* How many times the dispatch arms are wrapped around the base trees.
MaxDepth == 1

\* Walkers that can be constructed over the one tree.
Walkers == {1, 2}

(***************************************************************************)
(* AST nodes (easter crate types, as walk.rs destructures them).           *)
(***************************************************************************)
N(cat, kind, kids) == [cat |-> cat, kind |-> kind, kids |-> kids]

\* Option::None in an optional field.
None == N("None", "None", <<>>)

IsSome(n) == n.cat # "None"

Script(items) == N("Script", "Script", items)

Block(items) == N("Block", "Block", items)

Stmt_Block(items) == N("Stmt", "Block", <<Block(items)>>)

Stmt_Var(dtors) == N("Stmt", "Var", dtors)

Stmt_Expr(e) == N("Stmt", "Expr", <<e>>)

Stmt_If(cond, cons, alt) == N("Stmt", "If", <<cond, cons, alt>>)

Stmt_Label(s) == N("Stmt", "Label", <<s>>)

SwitchCase(test, body) == N("Case", "Case", <<test>> \o body)

Stmt_Switch(cond, cases) == N("Stmt", "Switch", <<cond>> \o cases)

Stmt_Return(arg) == N("Stmt", "Return", <<arg>>)

Stmt_Throw(arg) == N("Stmt", "Throw", <<arg>>)

Patt_Simple == N("Patt", "Simple", <<>>)

\* A destructuring pattern; its sub-patterns are its kids.
Patt_Compound == N("Patt", "Compound", <<Patt_Simple, Patt_Simple>>)

Catch(body) == N("Catch", "Catch", <<Patt_Simple, Block(body)>>)

Stmt_Try(block, caught, finally) == N("Stmt", "Try", <<Block(block), caught, finally>>)

Stmt_While(cond, body) == N("Stmt", "While", <<cond, body>>)

Stmt_DoWhile(body, cond) == N("Stmt", "DoWhile", <<body, cond>>)

Stmt_For(init, cond, update, body) == N("Stmt", "For", <<init, cond, update, body>>)

Stmt_ForIn(head, iterable, body) == N("Stmt", "ForIn", <<head, iterable, body>>)

Stmt_ForOf(head, iterable, body) == N("Stmt", "ForOf", <<head, iterable, body>>)

\* Statement variants that walk_stmt has no arm for.
Stmt_Empty == N("Stmt", "Empty", <<>>)

Stmt_Debugger == N("Stmt", "Debugger", <<>>)

Stmt_With(obj, body) == N("Stmt", "With", <<obj, body>>)

Dtor_Simple(value) == N("Dtor", "Simple", <<Patt_Simple, value>>)

Dtor_Compound(value) == N("Dtor", "Compound", <<Patt_Compound, value>>)

ConstDtor(patt, value) == N("ConstDtor", "ConstDtor", <<patt, value>>)

\* Fun<Id>: the parameters and the body (a list of items).
Fun(items) == N("Fun", "Fun", <<N("Params", "Params", <<Patt_Simple>>), N("Body", "Body", items)>>)

Decl_Fun(items) == N("Decl", "Fun", <<Fun(items)>>)

Decl_Let(dtors) == N("Decl", "Let", dtors)

Decl_Const(dtors) == N("Decl", "Const", dtors)

\* Expression variants that walk_expr has no arm for.
Expr_Id == N("Expr", "Id", <<>>)

Expr_This == N("Expr", "This", <<>>)

Expr_New(callee, args) == N("Expr", "New", <<callee>> \o args)

ExprListItem_Expr(e) == N("ExprListItem", "Expr", <<e>>)

ExprListItem_Spread(e) == N("ExprListItem", "Spread", <<e>>)

Expr_Call(callee, args) == N("Expr", "Call", <<callee>> \o args)

Expr_Seq(exprs) == N("Expr", "Seq", exprs)

Expr_Arr(elements) == N("Expr", "Arr", elements)

Expr_Obj(props) == N("Expr", "Obj", props)

Expr_Fun(items) == N("Expr", "Fun", <<Fun(items)>>)

Expr_Binop(a, b) == N("Expr", "Binop", <<a, b>>)

Expr_Logop(a, b) == N("Expr", "Logop", <<a, b>>)

Expr_Unop(e) == N("Expr", "Unop", <<e>>)

AssignTarget_Id == N("AssignTarget", "Id", <<>>)

AssignTarget_Dot(obj) == N("AssignTarget", "Dot", <<obj>>)

AssignTarget_Brack(obj, prop) == N("AssignTarget", "Brack", <<obj, prop>>)

\* kind is one of PreInc, PostInc, PreDec, PostDec.
Expr_IncDec(kind, target) == N("Expr", kind, <<target>>)

\* The target of a plain assignment is a Patt<AssignTarget>.
Patt_Target(target) == N("Patt", "Simple", <<target>>)

Expr_Assign(patt, e) == N("Expr", "Assign", <<patt, e>>)

Expr_BinAssign(target, e) == N("Expr", "BinAssign", <<target, e>>)

Expr_Cond(cond, cons, alt) == N("Expr", "Cond", <<cond, cons, alt>>)

Expr_Dot(obj) == N("Expr", "Dot", <<obj>>)

Expr_Brack(obj, prop) == N("Expr", "Brack", <<obj, prop>>)

PropKey == N("PropKey", "Id", <<>>)

PropVal_Init(e) == N("PropVal", "Init", <<e>>)

PropVal_Get(items) == N("PropVal", "Get", <<N("Body", "Body", items)>>)

PropVal_Set(items) == N("PropVal", "Set", <<Patt_Simple, N("Body", "Body", items)>>)

Prop_Regular(val) == N("Prop", "Regular", <<PropKey, val>>)

Prop_Method(items) == N("Prop", "Method", <<Fun(items)>>)

Prop_Shorthand == N("Prop", "Shorthand", <<N("Id", "Id", <<>>)>>)

\* The node of tree t at path p.
RECURSIVE NodeAt(_, _)
NodeAt(t, p) == IF Len(p) = 0 THEN t ELSE NodeAt(t.kids[Head(p)], Tail(p))

(***************************************************************************)
(* Calls.  A call is the name of the function (or hook) and the path of    *)
(* the node it is given.                                                   *)
(***************************************************************************)
Call(op, p) == [op |-> op, path |-> p]

RECURSIVE Concat(_)
Concat(ss) == IF Len(ss) = 0 THEN <<>> ELSE Head(ss) \o Concat(Tail(ss))

\* `for x in &n.<list>` where the list is kids[from..]: one call of op per element.
ForEach(op, p, n, from) ==
    [i \in 1..(Len(n.kids) - (from - 1)) |-> Call(op, p \o <<i + (from - 1)>>)]

(***************************************************************************)
(* walk_stmt: the arms of `match *stmt`.  Each gives the calls the arm     *)
(* makes for the statement n at path p.                                    *)
(***************************************************************************)
ArmBlock(p, n) == ForEach("walk_stmt_item", p \o <<1>>, n.kids[1], 1)

ArmVar(p, n) == <<Call("walk_var", p)>>

ArmExprStmt(p, n) == <<Call("walk_expr", p \o <<1>>)>>

\* The If arm walking the alternate before the consequent.
ArmIf_AltFirst(p, n) ==
    <<Call("walk_expr", p \o <<1>>)>>
    \o (IF IsSome(n.kids[3]) THEN <<Call("walk_stmt", p \o <<3>>)>> ELSE <<>>)
    \o <<Call("walk_stmt", p \o <<2>>)>>

ArmIf(p, n) ==
    <<Call("walk_expr", p \o <<1>>), Call("walk_stmt", p \o <<2>>)>>
    \o (IF IsSome(n.kids[3]) THEN <<Call("walk_stmt", p \o <<3>>)>> ELSE <<>>)

ArmLabel(p, n) == <<Call("walk_stmt", p \o <<1>>)>>

\* One case of a switch: the test when there is one, then the body items.
CaseCalls(p, case) ==
    (IF IsSome(case.kids[1]) THEN <<Call("walk_expr", p \o <<1>>)>> ELSE <<>>)
    \o ForEach("walk_stmt_item", p, case, 2)

ArmSwitch(p, n) ==
    <<Call("walk_expr", p \o <<1>>)>>
    \o Concat([c \in 1..(Len(n.kids) - 1) |-> CaseCalls(p \o <<c + 1>>, n.kids[c + 1])])

ArmReturnThrow(p, n) == <<Call("walk_expr", p \o <<1>>)>>

ArmTry(p, n) ==
    ForEach("walk_stmt_item", p \o <<1>>, n.kids[1], 1)
    \o (IF IsSome(n.kids[2])
        THEN ForEach("walk_stmt_item", p \o <<2, 2>>, n.kids[2].kids[2], 1)
        ELSE <<>>)
    \o (IF IsSome(n.kids[3])
        THEN ForEach("walk_stmt_item", p \o <<3>>, n.kids[3], 1)
        ELSE <<>>)

ArmWhile(p, n) == <<Call("walk_expr", p \o <<1>>), Call("walk_stmt", p \o <<2>>)>>

\* The DoWhile arm in the order of the While arm: condition, then body.
ArmDoWhile_CondFirst(p, n) == <<Call("walk_expr", p \o <<2>>), Call("walk_stmt", p \o <<1>>)>>

ArmDoWhile(p, n) == <<Call("walk_stmt", p \o <<1>>), Call("walk_expr", p \o <<2>>)>>

ArmFor(p, n) ==
    (IF IsSome(n.kids[2]) THEN <<Call("walk_expr", p \o <<2>>)>> ELSE <<>>)
    \o (IF IsSome(n.kids[3]) THEN <<Call("walk_expr", p \o <<3>>)>> ELSE <<>>)
    \o <<Call("walk_stmt", p \o <<4>>)>>

ArmForIn(p, n) == <<Call("walk_expr", p \o <<2>>), Call("walk_stmt", p \o <<3>>)>>

ArmForOf(p, n) == <<Call("walk_expr", p \o <<2>>), Call("walk_stmt", p \o <<3>>)>>

\* The catch-all arm as `_ => unimplemented!()`: the walk is abandoned.
ArmOtherStmt_Panic(p, n) == <<Call("panic", p)>>

\* `_ => ()`
ArmOtherStmt(p, n) == <<>>

MatchStmt(p, n) ==
    CASE n.kind = "Block" -> ArmBlock(p, n)
      [] n.kind = "Var" -> ArmVar(p, n)
      [] n.kind = "Expr" -> ArmExprStmt(p, n)
      [] n.kind = "If" -> ArmIf(p, n)
      [] n.kind = "Label" -> ArmLabel(p, n)
      [] n.kind = "Switch" -> ArmSwitch(p, n)
      [] (n.kind = "Return" /\ IsSome(n.kids[1])) \/ n.kind = "Throw" -> ArmReturnThrow(p, n)
      [] n.kind = "Try" -> ArmTry(p, n)
      [] n.kind = "While" -> ArmWhile(p, n)
      [] n.kind = "DoWhile" -> ArmDoWhile(p, n)
      [] n.kind = "For" -> ArmFor(p, n)
      [] n.kind = "ForIn" -> ArmForIn(p, n)
      [] n.kind = "ForOf" -> ArmForOf(p, n)
      [] OTHER -> ArmOtherStmt(p, n)

walk_stmt(p, n) == <<Call("pre_stmt", p)>> \o MatchStmt(p, n) \o <<Call("post_stmt", p)>>

(***************************************************************************)
(* walk_script, walk_stmt_item, walk_decl, walk_var, walk_dtor, walk_fun,  *)
(* walk_patt, walk_assign_target, walk_prop.                               *)
(***************************************************************************)
walk_script(p, n) ==
    <<Call("pre_script", p)>> \o ForEach("walk_stmt_item", p, n, 1) \o <<Call("post_script", p)>>

walk_stmt_item(p, n) ==
    IF n.cat = "Stmt" THEN <<Call("walk_stmt", p)>> ELSE <<Call("walk_decl", p)>>

ArmDeclFun(p, n) == <<Call("walk_fun", p \o <<1>>)>>

ArmLet(p, n) == ForEach("walk_dtor", p, n, 1)

ArmConst(p, n) ==
    Concat([i \in 1..Len(n.kids) |->
              <<Call("walk_patt", p \o <<i, 1>>), Call("walk_expr", p \o <<i, 2>>)>>])

MatchDecl(p, n) ==
    CASE n.kind = "Fun" -> ArmDeclFun(p, n)
      [] n.kind = "Let" -> ArmLet(p, n)
      [] n.kind = "Const" -> ArmConst(p, n)

walk_decl(p, n) == <<Call("pre_decl", p)>> \o MatchDecl(p, n) \o <<Call("post_decl", p)>>

walk_var(p, n) == ForEach("walk_dtor", p, n, 1)

walk_dtor(p, n) ==
    IF n.kind = "Simple" /\ IsSome(n.kids[2]) THEN <<Call("walk_expr", p \o <<2>>)>> ELSE <<>>

\* walk_fun without its exit hook.
walk_fun_NoPost(p, n) ==
    <<Call("pre_fun", p)>> \o ForEach("walk_stmt_item", p \o <<2>>, n.kids[2], 1)

walk_fun(p, n) ==
    <<Call("pre_fun", p)>>
    \o ForEach("walk_stmt_item", p \o <<2>>, n.kids[2], 1)
    \o <<Call("post_fun", p)>>

walk_patt(p, n) == <<>>

walk_assign_target(p, n) ==
    CASE n.kind = "Id" -> <<>>
      [] n.kind = "Dot" -> <<Call("walk_expr", p \o <<1>>)>>
      [] n.kind = "Brack" -> <<Call("walk_expr", p \o <<1>>), Call("walk_expr", p \o <<2>>)>>

\* Prop::Regular: the value is an initializer, a getter or a setter.
ArmRegular(p, n) ==
    LET val == n.kids[2] IN
    CASE val.kind = "Init" -> <<Call("walk_expr", p \o <<2, 1>>)>>
      [] val.kind = "Get" -> ForEach("walk_stmt_item", p \o <<2, 1>>, val.kids[1], 1)
      [] val.kind = "Set" -> ForEach("walk_stmt_item", p \o <<2, 2>>, val.kids[2], 1)

\* A method walked like an accessor: its body items, without the Function hooks.
ArmMethod_BodyOnly(p, n) == ForEach("walk_stmt_item", p \o <<1, 2>>, n.kids[1].kids[2], 1)

ArmMethod(p, n) == <<Call("walk_fun", p \o <<1>>)>>

ArmShorthand(p, n) == <<>>

walk_prop(p, n) ==
    CASE n.kind = "Regular" -> ArmRegular(p, n)
      [] n.kind = "Method" -> ArmMethod(p, n)
      [] n.kind = "Shorthand" -> ArmShorthand(p, n)

(***************************************************************************)
(* walk_expr: the arms of `match *expr`.                                   *)
(***************************************************************************)
\* An ExprListItem is an expression or a spread: both walk the inner expression.
ListItemCalls(p, item) ==
    CASE item.cat = "None" -> <<>>
      [] item.kind = "Expr" -> <<Call("walk_expr", p \o <<1>>)>>
      [] item.kind = "Spread" -> <<Call("walk_expr", p \o <<1>>)>>

\* The Call arm walking the arguments before the callee.
ArmCall_ArgsFirst(p, n) ==
    Concat([a \in 1..(Len(n.kids) - 1) |-> ListItemCalls(p \o <<a + 1>>, n.kids[a + 1])])
    \o <<Call("walk_expr", p \o <<1>>)>>

ArmCall(p, n) ==
    <<Call("walk_expr", p \o <<1>>)>>
    \o Concat([a \in 1..(Len(n.kids) - 1) |-> ListItemCalls(p \o <<a + 1>>, n.kids[a + 1])])

ArmSeq(p, n) == ForEach("walk_expr", p, n, 1)

ArmArr(p, n) == Concat([i \in 1..Len(n.kids) |-> ListItemCalls(p \o <<i>>, n.kids[i])])

ArmObj(p, n) == ForEach("walk_prop", p, n, 1)

ArmExprFun(p, n) == <<Call("walk_fun", p \o <<1>>)>>

ArmBinopLogop(p, n) == <<Call("walk_expr", p \o <<1>>), Call("walk_expr", p \o <<2>>)>>

ArmUnop(p, n) == <<Call("walk_expr", p \o <<1>>)>>

ArmIncDec(p, n) == <<Call("walk_assign_target", p \o <<1>>)>>

ArmAssign(p, n) == <<Call("walk_patt", p \o <<1>>), Call("walk_expr", p \o <<2>>)>>

ArmBinAssign(p, n) == <<Call("walk_assign_target", p \o <<1>>), Call("walk_expr", p \o <<2>>)>>

ArmCond(p, n) ==
    <<Call("walk_expr", p \o <<1>>), Call("walk_expr", p \o <<2>>), Call("walk_expr", p \o <<3>>)>>

ArmDot(p, n) == <<Call("walk_expr", p \o <<1>>)>>

ArmBrack(p, n) == <<Call("walk_expr", p \o <<1>>), Call("walk_expr", p \o <<2>>)>>

\* The catch-all arm walking the first operand of a variant it does not know.
ArmOtherExpr_Descend(p, n) ==
    IF Len(n.kids) > 0 THEN <<Call("walk_expr", p \o <<1>>)>> ELSE <<>>

\* `_ => ()`
ArmOtherExpr(p, n) == <<>>

MatchExpr(p, n) ==
    CASE n.kind = "Call" -> ArmCall(p, n)
      [] n.kind = "Seq" -> ArmSeq(p, n)
      [] n.kind = "Arr" -> ArmArr(p, n)
      [] n.kind = "Obj" -> ArmObj(p, n)
      [] n.kind = "Fun" -> ArmExprFun(p, n)
      [] n.kind \in {"Binop", "Logop"} -> ArmBinopLogop(p, n)
      [] n.kind = "Unop" -> ArmUnop(p, n)
      [] n.kind \in {"PreInc", "PostInc", "PreDec", "PostDec"} -> ArmIncDec(p, n)
      [] n.kind = "Assign" -> ArmAssign(p, n)
      [] n.kind = "BinAssign" -> ArmBinAssign(p, n)
      [] n.kind = "Cond" -> ArmCond(p, n)
      [] n.kind = "Dot" -> ArmDot(p, n)
      [] n.kind = "Brack" -> ArmBrack(p, n)
      [] OTHER -> ArmOtherExpr(p, n)

\* walk_expr with the exit hook called before the children are walked.
walk_expr_PostFirst(p, n) ==
    <<Call("pre_expr", p), Call("post_expr", p)>> \o MatchExpr(p, n)

walk_expr(p, n) == <<Call("pre_expr", p)>> \o MatchExpr(p, n) \o <<Call("post_expr", p)>>

\* Walker::walk: walk_script, then hand the callbacks back.
walk(p) == <<Call("walk_script", p), Call("return", p)>>

(***************************************************************************)
(* The Callbacks implementation: a log of the hook calls it receives, on   *)
(* top of whatever the caller had already put in it (the seed).            *)
(***************************************************************************)
Hooks ==
    {"pre_script", "pre_stmt", "pre_expr", "pre_decl", "pre_fun",
     "post_script", "post_stmt", "post_expr", "post_decl", "post_fun"}

Ev(hook, p) == [hook |-> hook, path |-> p]

\* One Callbacks value shared by all the walkers (a static) instead of one each.
Notify_Shared(cbs, w, hook, p) == [cbs EXCEPT ![1] = Append(@, Ev(hook, p))]

\* self.callbacks.<hook>(node): the hook of walker w's own Callbacks value runs.
Notify(cbs, w, hook, p) == [cbs EXCEPT ![w] = Append(@, Ev(hook, p))]

Seeds == {<<>>, <<Ev("seed", <<>>)>>}

(***************************************************************************)
(* The trees the walkers are run on.                                       *)
(***************************************************************************)
\* if (a) { b; } else { c; }
IfExample ==
    Stmt_If(Expr_Id, Stmt_Block(<<Stmt_Expr(Expr_Id)>>), Stmt_Block(<<Stmt_Expr(Expr_Id)>>))

\* f(function(){ g(); })
CallExample ==
    Expr_Call(Expr_Id,
              <<ExprListItem_Expr(Expr_Fun(<<Stmt_Expr(Expr_Call(Expr_Id, <<>>))>>))>>)

\* {a: 1, get b(){ return h(); }, c(){}, d}
ObjExample ==
    Expr_Obj(<<Prop_Regular(PropVal_Init(Expr_This)),
               Prop_Regular(PropVal_Get(<<Stmt_Return(Expr_Call(Expr_Id, <<>>))>>)),
               Prop_Method(<<>>),
               Prop_Shorthand>>)

\* var a = i++, [b, c] = x; const d = (o.p = 1), e = (o[k] -= 1); function f(){}
DeclExample ==
    <<Stmt_Var(<<Dtor_Simple(Expr_IncDec("PostInc", AssignTarget_Id)), Dtor_Compound(Expr_Id)>>),
      Decl_Const(<<ConstDtor(Patt_Simple, Expr_Assign(Patt_Target(AssignTarget_Dot(Expr_Id)), Expr_This)),
                   ConstDtor(Patt_Simple, Expr_BinAssign(AssignTarget_Brack(Expr_Id, Expr_Id), Expr_This))>>),
      Decl_Fun(<<>>)>>

ForHead_Expr(e) == N("ForHead", "Expr", <<e>>)

ForHead_Var(dtors) == N("ForHead", "Var", dtors)

ForInHead_VarInit(e) == N("ForInHead", "VarInit", <<Patt_Simple, e>>)

ForOfHead_Let == N("ForOfHead", "Let", <<Patt_Compound>>)

BaseExprs == {Expr_Id, CallExample}

BaseItems == {Stmt_Empty, IfExample}

\* Every expression variant, with an expression of E or an item of I below it.
ExprArms(E, I) ==
    {Expr_This, ObjExample, Expr_Fun(<<>>), Expr_Arr(<<>>)}
    \cup {Expr_IncDec(k, AssignTarget_Id) : k \in {"PreInc", "PostInc", "PreDec", "PostDec"}}
    \cup UNION {
        {Expr_Call(e, <<>>),
         Expr_Call(Expr_Id, <<ExprListItem_Expr(e), ExprListItem_Spread(Expr_This)>>),
         Expr_Call(Expr_This, <<ExprListItem_Expr(Expr_Id), ExprListItem_Spread(e)>>),
         Expr_New(e, <<ExprListItem_Expr(Expr_Id)>>),
         Expr_Seq(<<Expr_Id, e, Expr_This>>),
         Expr_Arr(<<None, ExprListItem_Expr(e), ExprListItem_Spread(Expr_Id)>>),
         Expr_Arr(<<ExprListItem_Spread(e), None>>),
         Expr_Obj(<<Prop_Shorthand, Prop_Regular(PropVal_Init(e))>>),
         Expr_Binop(e, Expr_Id),
         Expr_Logop(Expr_Id, e),
         Expr_Unop(e),
         Expr_IncDec("PreInc", AssignTarget_Dot(e)),
         Expr_IncDec("PostDec", AssignTarget_Brack(Expr_Id, e)),
         Expr_Assign(Patt_Target(AssignTarget_Dot(e)), Expr_Id),
         Expr_Assign(Patt_Compound, e),
         Expr_BinAssign(AssignTarget_Brack(e, Expr_Id), Expr_This),
         Expr_BinAssign(AssignTarget_Id, e),
         Expr_Cond(e, Expr_Id, Expr_This),
         Expr_Cond(Expr_Id, Expr_This, e),
         Expr_Dot(e),
         Expr_Brack(e, Expr_Id),
         Expr_Brack(Expr_Id, e)} : e \in E}
    \cup UNION {
        {Expr_Fun(<<i, Stmt_Debugger>>),
         Expr_Obj(<<Prop_Regular(PropVal_Get(<<i>>)), Prop_Shorthand>>),
         Expr_Obj(<<Prop_Regular(PropVal_Set(<<Stmt_Empty, i>>))>>),
         Expr_Obj(<<Prop_Method(<<i>>), Prop_Regular(PropVal_Init(Expr_Id))>>)} : i \in I}

\* Every statement and declaration variant, with an expression of E or an
\* item of I below it (a statement of I where the field is a statement).
ItemArms(E, I) ==
    {Stmt_Debugger, Stmt_Block(<<>>), Stmt_Return(None), Decl_Let(<<Dtor_Simple(None)>>)}
    \cup {Script_item : Script_item \in {DeclExample[k] : k \in 1..Len(DeclExample)}}
    \cup UNION {
        {Stmt_Var(<<Dtor_Simple(e), Dtor_Simple(None), Dtor_Simple(Expr_This)>>),
         Stmt_Var(<<Dtor_Compound(e), Dtor_Simple(Expr_Id)>>),
         Stmt_Expr(e),
         Stmt_If(e, Stmt_Empty, None),
         Stmt_Switch(e, <<SwitchCase(Expr_Id, <<Stmt_Empty>>), SwitchCase(None, <<>>)>>),
         Stmt_Switch(Expr_Id, <<SwitchCase(None, <<Stmt_Empty>>), SwitchCase(e, <<Stmt_Debugger>>)>>),
         Stmt_Return(e),
         Stmt_Throw(e),
         Stmt_While(e, Stmt_Empty),
         Stmt_DoWhile(Stmt_Empty, e),
         Stmt_For(ForHead_Expr(e), Expr_Id, Expr_This, Stmt_Empty),
         Stmt_For(ForHead_Var(<<Dtor_Simple(Expr_Id)>>), e, None, Stmt_Empty),
         Stmt_For(None, None, e, Stmt_Empty),
         Stmt_ForIn(ForInHead_VarInit(Expr_This), e, Stmt_Empty),
         Stmt_ForOf(ForOfHead_Let, e, Stmt_Empty),
         Stmt_With(e, Stmt_Empty),
         Decl_Let(<<Dtor_Simple(e), Dtor_Simple(Expr_Id)>>),
         Decl_Let(<<Dtor_Simple(None), Dtor_Compound(e)>>),
         Decl_Const(<<ConstDtor(Patt_Compound, e), ConstDtor(Patt_Simple, Expr_Id)>>)} : e \in E}
    \cup UNION {
        {Stmt_Block(<<i, Stmt_Debugger>>),
         Stmt_Switch(Expr_Id, <<SwitchCase(Expr_This, <<Stmt_Empty, i>>)>>),
         Stmt_Try(<<i>>, Catch(<<Stmt_Empty>>), None),
         Stmt_Try(<<Stmt_Empty>>, Catch(<<i>>), Block(<<Stmt_Debugger>>)),
         Stmt_Try(<<>>, None, Block(<<i>>)),
         Decl_Fun(<<Stmt_Empty, i>>)} : i \in I}
    \cup UNION {
        {Stmt_If(Expr_Id, s, Stmt_Debugger),
         Stmt_If(Expr_Id, Stmt_Empty, s),
         Stmt_Label(s),
         Stmt_While(Expr_Id, s),
         Stmt_DoWhile(s, Expr_Id),
         Stmt_For(ForHead_Expr(Expr_Id), None, None, s),
         Stmt_ForIn(ForInHead_VarInit(Expr_Id), Expr_This, s),
         Stmt_ForOf(ForOfHead_Let, Expr_Id, s),
         Stmt_With(Expr_Id, s)} : s \in {i \in I : i.cat = "Stmt"}}

RECURSIVE Exprs(_)
RECURSIVE Items(_)
Exprs(d) == IF d = 0 THEN BaseExprs ELSE ExprArms(Exprs(d - 1), Items(d - 1))

Items(d) == IF d = 0 THEN BaseItems ELSE ItemArms(Exprs(d - 1), Items(d - 1))

\* The scripts a single walker is run on.
Scripts ==
    {Script(<<i, Stmt_Debugger>>) : i \in Items(MaxDepth)}
    \cup {Script(<<Stmt_Expr(e)>>) : e \in Exprs(MaxDepth)}

\* The scripts two walkers are run on together.
SharedScripts ==
    {Script(<<IfExample>>), Script(<<Stmt_Expr(CallExample)>>),
     Script(<<Stmt_Expr(ObjExample)>>), Script(DeclExample)}

(***************************************************************************)
(* The state machine.                                                      *)
(***************************************************************************)
\* Walker::new for the walkers in W, all over the same borrowed tree.
Construct(scripts, W) ==
    /\ ast \in scripts
    /\ phase = [w \in Walkers |-> IF w \in W THEN "new" ELSE "none"]
    /\ todo = [w \in Walkers |-> <<>>]
    /\ seed \in [Walkers -> Seeds]
    /\ \A w \in Walkers : w \notin W => seed[w] = <<>>
    /\ callbacks = seed
    /\ result = [w \in Walkers |-> <<>>]

Init == Construct(Scripts, {1})

InitShared == Construct(SharedScripts, Walkers) /\ seed[1] # seed[2]

HeadIs(w, op) == phase[w] = "walking" /\ Len(todo[w]) > 0 /\ Head(todo[w]).op = op

Arg(w) == Head(todo[w]).path

\* The call at the head of todo[w] is made: the calls of its body take its place.
Expand(w, calls) ==
    /\ todo' = [todo EXCEPT ![w] = calls \o Tail(@)]
    /\ UNCHANGED <<ast, phase, callbacks, seed, result>>

Walk(w) ==
    /\ phase[w] = "new"
    /\ phase' = [phase EXCEPT ![w] = "walking"]
    /\ todo' = [todo EXCEPT ![w] = walk(<<>>)]
    /\ UNCHANGED <<ast, callbacks, seed, result>>

WalkScript(w) == HeadIs(w, "walk_script") /\ Expand(w, walk_script(Arg(w), NodeAt(ast, Arg(w))))

WalkStmtItem(w) ==
    HeadIs(w, "walk_stmt_item") /\ Expand(w, walk_stmt_item(Arg(w), NodeAt(ast, Arg(w))))

WalkStmt(w) == HeadIs(w, "walk_stmt") /\ Expand(w, walk_stmt(Arg(w), NodeAt(ast, Arg(w))))

WalkDecl(w) == HeadIs(w, "walk_decl") /\ Expand(w, walk_decl(Arg(w), NodeAt(ast, Arg(w))))

WalkVar(w) == HeadIs(w, "walk_var") /\ Expand(w, walk_var(Arg(w), NodeAt(ast, Arg(w))))

WalkDtor(w) == HeadIs(w, "walk_dtor") /\ Expand(w, walk_dtor(Arg(w), NodeAt(ast, Arg(w))))

WalkExpr(w) == HeadIs(w, "walk_expr") /\ Expand(w, walk_expr(Arg(w), NodeAt(ast, Arg(w))))

WalkFun(w) == HeadIs(w, "walk_fun") /\ Expand(w, walk_fun(Arg(w), NodeAt(ast, Arg(w))))

WalkPatt(w) == HeadIs(w, "walk_patt") /\ Expand(w, walk_patt(Arg(w), NodeAt(ast, Arg(w))))

WalkAssignTarget(w) ==
    HeadIs(w, "walk_assign_target")
    /\ Expand(w, walk_assign_target(Arg(w), NodeAt(ast, Arg(w))))

WalkProp(w) == HeadIs(w, "walk_prop") /\ Expand(w, walk_prop(Arg(w), NodeAt(ast, Arg(w))))

\* A hook of the Callbacks value is called with the node.
Hook(w) ==
    /\ phase[w] = "walking"
    /\ Len(todo[w]) > 0
    /\ Head(todo[w]).op \in Hooks
    /\ callbacks' = Notify(callbacks, w, Head(todo[w]).op, Arg(w))
    /\ todo' = [todo EXCEPT ![w] = Tail(@)]
    /\ UNCHANGED <<ast, phase, seed, result>>

\* walk returns self.callbacks.
Return(w) ==
    /\ HeadIs(w, "return")
    /\ result' = [result EXCEPT ![w] = callbacks[w]]
    /\ phase' = [phase EXCEPT ![w] = "returned"]
    /\ todo' = [todo EXCEPT ![w] = Tail(@)]
    /\ UNCHANGED <<ast, callbacks, seed>>

Step(w) ==
    \/ Walk(w)
    \/ WalkScript(w)
    \/ WalkStmtItem(w)
    \/ WalkStmt(w)
    \/ WalkDecl(w)
    \/ WalkVar(w)
    \/ WalkDtor(w)
    \/ WalkExpr(w)
    \/ WalkFun(w)
    \/ WalkPatt(w)
    \/ WalkAssignTarget(w)
    \/ WalkProp(w)
    \/ Hook(w)
    \/ Return(w)

Next == \E w \in Walkers : Step(w)

Spec == Init /\ [][Next]_vars

\* Two walkers over the same tree, their steps interleaved in any order.
SpecShared == InitShared /\ [][Next]_vars

\* A walk is a synchronous call: a walker that has a step to take takes it.
FairSpec == Spec /\ \A w \in Walkers : WF_vars(Step(w))

(***************************************************************************)
(* Reading a walk off the Callbacks value.                                 *)
(***************************************************************************)
\* The hook calls walker w has made so far.
Trace(w) == SubSeq(callbacks[w], Len(seed[w]) + 1, Len(callbacks[w]))

Returned(w) == phase[w] = "returned"

HookedCats == {"Script", "Stmt", "Expr", "Decl", "Fun"}

EnterOf(cat) ==
    CASE cat = "Script" -> "pre_script"
      [] cat = "Stmt" -> "pre_stmt"
      [] cat = "Expr" -> "pre_expr"
      [] cat = "Decl" -> "pre_decl"
      [] cat = "Fun" -> "pre_fun"

ExitOf(cat) ==
    CASE cat = "Script" -> "post_script"
      [] cat = "Stmt" -> "post_stmt"
      [] cat = "Expr" -> "post_expr"
      [] cat = "Decl" -> "post_decl"
      [] cat = "Fun" -> "post_fun"

IsPrefix(p, q) == Len(p) <= Len(q) /\ SubSeq(q, 1, Len(p)) = p

Has(tr, e) == \E i \in 1..Len(tr) : tr[i] = e

Index(tr, e) == CHOOSE i \in 1..Len(tr) : tr[i] = e

Count(tr, hook) == Cardinality({i \in 1..Len(tr) : tr[i].hook = hook})

EnterEv(q) == Ev(EnterOf(NodeAt(ast, q).cat), q)

ExitEv(q) == Ev(ExitOf(NodeAt(ast, q).cat), q)

\* The node at q was entered and, later, exited.
Visited(tr, q) ==
    /\ NodeAt(ast, q).cat \in HookedCats
    /\ Has(tr, EnterEv(q))
    /\ Has(tr, ExitEv(q))
    /\ Index(tr, EnterEv(q)) < Index(tr, ExitEv(q))

\* The hook subtrace of the node at q: from its enter call to its exit call.
Sub(tr, q) ==
    IF Visited(tr, q) THEN SubSeq(tr, Index(tr, EnterEv(q)), Index(tr, ExitEv(q))) ELSE <<>>

\* The hook calls strictly between the enter and the exit call of the node at q.
Inner(tr, q) ==
    IF Visited(tr, q)
    THEN SubSeq(tr, Index(tr, EnterEv(q)) + 1, Index(tr, ExitEv(q)) - 1)
    ELSE <<>>

\* Some hook call was made for the node at q or for a node below it.
Touched(tr, q) == \E k \in 1..Len(tr) : IsPrefix(q, tr[k].path)

\* The paths of the entered nodes of category cat whose variant is in kinds.
Entered(tr, cat, kinds) ==
    {tr[i].path : i \in {j \in 1..Len(tr) :
        tr[j].hook = EnterOf(cat) /\ NodeAt(ast, tr[j].path).kind \in kinds}}

\* The subtraces of the nodes at paths qs (a sequence), one after the other.
Subs(tr, qs) == Concat([i \in 1..Len(qs) |-> Sub(tr, qs[i])])

AllVisited(tr, qs) == \A i \in 1..Len(qs) : Visited(tr, qs[i])

\* The paths of the kids from..last of the node at q.
KidPaths(q, from) ==
    [i \in 1..(Len(NodeAt(ast, q).kids) - (from - 1)) |-> q \o <<i + (from - 1)>>]

(***************************************************************************)
(* Claims.                                                                 *)
(***************************************************************************)
\* C1: the hook trace of a walk is properly nested.  A node's exit call has
\* its enter call before it; every hook call for a node has, before it, the
\* enter call of each of the node's ancestors that has hooks (Script,
\* Statement, Expression, Declaration, Function), and none of their exit
\* calls; and when the walk has returned every entered node has been exited.
C1_Nested ==
    \A w \in Walkers :
        LET tr == Trace(w) IN
        /\ \A k \in 1..Len(tr) :
            LET q == tr[k].path
                enter == EnterEv(q)
            IN
            /\ tr[k] = ExitEv(q) => \E i \in 1..(k - 1) : tr[i] = enter
            /\ \A d \in 0..(Len(q) - 1) :
                LET a == SubSeq(q, 1, d)
                    cat == NodeAt(ast, a).cat
                    enterA == Ev(EnterOf(cat), a)
                    exitA == Ev(ExitOf(cat), a)
                IN
                cat \in HookedCats =>
                    /\ \E i \in 1..(k - 1) : tr[i] = enterA
                    /\ \A j \in 1..k : tr[j] # exitA
        /\ Returned(w) =>
            \A k \in 1..Len(tr) :
                LET exit == ExitEv(tr[k].path) IN
                tr[k] = EnterEv(tr[k].path) => \E j \in (k + 1)..Len(tr) : tr[j] = exit

\* A finished walk that went at least three levels below the Script.
C1_Witness ==
    \E w \in Walkers :
        /\ Returned(w)
        /\ \E k \in 1..Len(Trace(w)) :
            /\ Len(Trace(w)[k].path) >= 3
            /\ Trace(w)[k].hook \in {"pre_expr", "pre_stmt"}

\* C2: no hook call is repeated (a node gets at most one enter and one exit
\* call), every hook call is the enter or exit hook of the category of the
\* node it is given, and after a complete walk, for each category, the
\* number of enter calls, the number of exit calls and the number of nodes
\* of that category that were given to a hook are the same.
C2_Counts ==
    \A w \in Walkers :
        LET tr == Trace(w) IN
        /\ \A i, j \in 1..Len(tr) : i # j => tr[i] # tr[j]
        /\ \A k \in 1..Len(tr) :
            /\ NodeAt(ast, tr[k].path).cat \in HookedCats
            /\ tr[k] \in {EnterEv(tr[k].path), ExitEv(tr[k].path)}
        /\ Returned(w) =>
            \A c \in HookedCats :
                /\ Count(tr, EnterOf(c)) = Count(tr, ExitOf(c))
                /\ Count(tr, EnterOf(c)) =
                     Cardinality({tr[k].path : k \in {j \in 1..Len(tr) :
                                     tr[j].hook \in {EnterOf(c), ExitOf(c)}}})

\* A finished walk that met a statement, an expression, a declaration and a function.
C2_Witness ==
    \E w \in Walkers :
        /\ Returned(w)
        /\ \A c \in HookedCats : Count(Trace(w), EnterOf(c)) >= 1

\* C3: every walker that was constructed eventually returns, with no call
\* left to make, and what it returns is its Callbacks value.
C3_Terminates ==
    <>(\A w \in Walkers :
          phase[w] # "none" => Returned(w) /\ todo[w] = <<>> /\ result[w] = callbacks[w])

\* A walk has returned a Callbacks value that saw hook calls.
C3_Witness ==
    \E w \in Walkers : Returned(w) /\ Len(Trace(w)) > 2 /\ result[w] = callbacks[w]

\* The variants the dispatch table of the specification lists.
TableStmtKinds ==
    {"Block", "Var", "Expr", "If", "Label", "Switch", "Throw", "Try",
     "While", "DoWhile", "For", "ForIn", "ForOf"}

TableExprKinds ==
    {"Call", "Seq", "Arr", "Obj", "Fun", "Binop", "Logop", "Unop",
     "PreInc", "PostInc", "PreDec", "PostDec", "Assign", "BinAssign",
     "Cond", "Dot", "Brack"}

\* The node has no explicit case: a variant outside the table, or a Return with no argument.
Unlisted(n) ==
    \/ n.cat = "Stmt" /\ n.kind \notin TableStmtKinds /\ (n.kind = "Return" => ~IsSome(n.kids[1]))
    \/ n.cat = "Expr" /\ n.kind \notin TableExprKinds

\* C5: the enter call of a Statement or Expression with no explicit case is
\* made once and is followed at once by the exit call of the same node (no
\* hook call in between), and the walk does not end between the two.
C5_Shallow ==
    \A w \in Walkers :
        LET tr == Trace(w) IN
        \A k \in 1..Len(tr) :
            LET q == tr[k].path IN
            (Unlisted(NodeAt(ast, q)) /\ tr[k] = EnterEv(q)) =>
                /\ Cardinality({j \in 1..Len(tr) : tr[j] = tr[k]}) = 1
                /\ Cardinality({j \in 1..Len(tr) : tr[j] = ExitEv(q)}) <= 1
                /\ k < Len(tr) => tr[k + 1] = ExitEv(q)
                /\ Returned(w) => k < Len(tr)
                /\ ~\E j \in 1..Len(tr) : Len(tr[j].path) > Len(q) /\ IsPrefix(q, tr[j].path)

\* A finished walk over a `new` expression (which has operands) and a bare Return.
C5_Witness ==
    \E w \in Walkers :
        /\ Returned(w)
        /\ \E k \in 1..Len(Trace(w)) :
            /\ Trace(w)[k].hook = "pre_expr"
            /\ NodeAt(ast, Trace(w)[k].path).kind = "New"

\* The hook order the specification gives for `if (a) { b; } else { c; }` at path p.
IfExampleTrace(p) ==
    <<Ev("pre_stmt", p),
      Ev("pre_expr", p \o <<1>>), Ev("post_expr", p \o <<1>>),
      Ev("pre_stmt", p \o <<2>>),
      Ev("pre_stmt", p \o <<2, 1, 1>>),
      Ev("pre_expr", p \o <<2, 1, 1, 1>>), Ev("post_expr", p \o <<2, 1, 1, 1>>),
      Ev("post_stmt", p \o <<2, 1, 1>>),
      Ev("post_stmt", p \o <<2>>),
      Ev("pre_stmt", p \o <<3>>),
      Ev("pre_stmt", p \o <<3, 1, 1>>),
      Ev("pre_expr", p \o <<3, 1, 1, 1>>), Ev("post_expr", p \o <<3, 1, 1, 1>>),
      Ev("post_stmt", p \o <<3, 1, 1>>),
      Ev("post_stmt", p \o <<3>>),
      Ev("post_stmt", p)>>

\* C6: after a walk, the subtrace of every If statement is its enter call,
\* the whole subtrace of the condition, the whole subtrace of the
\* consequent, the whole subtrace of the alternate when there is one, and
\* its exit call; for `if (a) { b; } else { c; }` it is the sequence the
\* specification lists.
C6_IfOrder ==
    \A w \in Walkers :
        Returned(w) =>
            LET tr == Trace(w) IN
            \A p \in Entered(tr, "Stmt", {"If"}) :
                LET n == NodeAt(ast, p)
                    alt == IF IsSome(n.kids[3]) THEN <<p \o <<3>>>> ELSE <<>>
                IN
                /\ AllVisited(tr, <<p \o <<1>>, p \o <<2>>>> \o alt)
                /\ Sub(tr, p) =
                     <<Ev("pre_stmt", p)>> \o Subs(tr, <<p \o <<1>>, p \o <<2>>>> \o alt)
                     \o <<Ev("post_stmt", p)>>
                /\ n = IfExample => Sub(tr, p) = IfExampleTrace(p)

\* A finished walk over `if (a) { b; } else { c; }`.
C6_Witness ==
    \E w \in Walkers :
        /\ Returned(w)
        /\ \E p \in Entered(Trace(w), "Stmt", {"If"}) : NodeAt(ast, p) = IfExample

\* The hook order the specification gives for `f(function(){ g(); })` at path p.
CallExampleTrace(p) ==
    <<Ev("pre_expr", p),
      Ev("pre_expr", p \o <<1>>), Ev("post_expr", p \o <<1>>),
      Ev("pre_expr", p \o <<2, 1>>),
      Ev("pre_fun", p \o <<2, 1, 1>>),
      Ev("pre_stmt", p \o <<2, 1, 1, 2, 1>>),
      Ev("pre_expr", p \o <<2, 1, 1, 2, 1, 1>>),
      Ev("pre_expr", p \o <<2, 1, 1, 2, 1, 1, 1>>), Ev("post_expr", p \o <<2, 1, 1, 2, 1, 1, 1>>),
      Ev("post_expr", p \o <<2, 1, 1, 2, 1, 1>>),
      Ev("post_stmt", p \o <<2, 1, 1, 2, 1>>),
      Ev("post_fun", p \o <<2, 1, 1>>),
      Ev("post_expr", p \o <<2, 1>>),
      Ev("post_expr", p)>>

\* The paths of the inner expressions of the arguments of the Call at p.
ArgPaths(p) == [a \in 1..(Len(NodeAt(ast, p).kids) - 1) |-> p \o <<a + 1, 1>>]

\* C7: after a walk, the subtrace of every Call is its enter call, the
\* subtrace of the callee, the subtraces of the inner expressions of its
\* arguments in list order, and its exit call; the subtrace of every
\* function expression is enter-Expression, enter-Function, the subtraces
\* of the body items in order, exit-Function, exit-Expression, with no hook
\* call for the parameters; for `f(function(){ g(); })` it is the sequence
\* the specification lists.
C7_CallOrder ==
    \A w \in Walkers :
        Returned(w) =>
            LET tr == Trace(w) IN
            /\ \A p \in Entered(tr, "Expr", {"Call"}) :
                /\ AllVisited(tr, <<p \o <<1>>>> \o ArgPaths(p))
                /\ Sub(tr, p) =
                     <<Ev("pre_expr", p)>> \o Subs(tr, <<p \o <<1>>>> \o ArgPaths(p))
                     \o <<Ev("post_expr", p)>>
                /\ NodeAt(ast, p) = CallExample => Sub(tr, p) = CallExampleTrace(p)
            /\ \A p \in Entered(tr, "Expr", {"Fun"}) :
                /\ AllVisited(tr, KidPaths(p \o <<1, 2>>, 1))
                /\ Sub(tr, p) =
                     <<Ev("pre_expr", p), Ev("pre_fun", p \o <<1>>)>>
                     \o Subs(tr, KidPaths(p \o <<1, 2>>, 1))
                     \o <<Ev("post_fun", p \o <<1>>), Ev("post_expr", p)>>
                /\ ~Touched(tr, p \o <<1, 1>>)

\* A finished walk over `f(function(){ g(); })`.
C7_Witness ==
    \E w \in Walkers :
        /\ Returned(w)
        /\ \E p \in Entered(Trace(w), "Expr", {"Call"}) : NodeAt(ast, p) = CallExample

\* The paths of the nodes the property at q has to have walked, in order.
PropPaths(q) ==
    LET prop == NodeAt(ast, q) IN
    CASE prop.kind = "Regular" /\ prop.kids[2].kind = "Init" -> <<q \o <<2, 1>>>>
      [] prop.kind = "Regular" /\ prop.kids[2].kind = "Get" -> KidPaths(q \o <<2, 1>>, 1)
      [] prop.kind = "Regular" /\ prop.kids[2].kind = "Set" -> KidPaths(q \o <<2, 2>>, 1)
      [] prop.kind = "Method" -> KidPaths(q \o <<1, 2>>, 1)
      [] prop.kind = "Shorthand" -> <<>>

\* The hook calls the property at q has to contribute.
PropTrace(tr, q) ==
    IF NodeAt(ast, q).kind = "Method"
    THEN <<Ev("pre_fun", q \o <<1>>)>> \o Subs(tr, PropPaths(q)) \o <<Ev("post_fun", q \o <<1>>)>>
    ELSE Subs(tr, PropPaths(q))

\* C8: after a walk, the hook calls between the enter and the exit call of
\* every Object literal are the contributions of its properties in order:
\* the subtrace of the value for a plain initializer, the subtraces of the
\* body items for a getter or a setter, enter-Function, the subtraces of
\* the body items and exit-Function for a method, nothing for a shorthand;
\* no hook call is made for a property key.
C8_Props ==
    \A w \in Walkers :
        Returned(w) =>
            LET tr == Trace(w) IN
            \A p \in Entered(tr, "Expr", {"Obj"}) :
                /\ Visited(tr, p)
                /\ \A i \in 1..Len(NodeAt(ast, p).kids) :
                    /\ AllVisited(tr, PropPaths(p \o <<i>>))
                    /\ NodeAt(ast, p \o <<i>>).kind = "Regular" => ~Touched(tr, p \o <<i, 1>>)
                    /\ NodeAt(ast, p \o <<i>>).kind = "Shorthand" => ~Touched(tr, p \o <<i>>)
                /\ Inner(tr, p) =
                     Concat([i \in 1..Len(NodeAt(ast, p).kids) |-> PropTrace(tr, p \o <<i>>)])

\* A finished walk over {a: 1, get b(){ return h(); }, c(){}, d}.
C8_Witness ==
    \E w \in Walkers :
        /\ Returned(w)
        /\ \E p \in Entered(Trace(w), "Expr", {"Obj"}) : NodeAt(ast, p) = ObjExample

\* The paths of the children the dispatch table gives the loop at p, in order.
LoopPaths(p) ==
    LET n == NodeAt(ast, p) IN
    CASE n.kind = "While" -> <<p \o <<1>>, p \o <<2>>>>
      [] n.kind = "DoWhile" -> <<p \o <<1>>, p \o <<2>>>>
      [] n.kind = "For" ->
            (IF IsSome(n.kids[2]) THEN <<p \o <<2>>>> ELSE <<>>)
            \o (IF IsSome(n.kids[3]) THEN <<p \o <<3>>>> ELSE <<>>)
            \o <<p \o <<4>>>>
      [] n.kind \in {"ForIn", "ForOf"} -> <<p \o <<2>>, p \o <<3>>>>

\* C10: after a walk, the hook calls between the enter and the exit call of
\* a loop are the subtraces of: condition, body (While); body, condition
\* (DoWhile); condition if present, update if present, body (For);
\* iterable, body (ForIn, ForOf); and no hook call is made for anything in
\* the head of a For, ForIn or ForOf.
C10_Loops ==
    \A w \in Walkers :
        Returned(w) =>
            LET tr == Trace(w) IN
            \A p \in Entered(tr, "Stmt", {"While", "DoWhile", "For", "ForIn", "ForOf"}) :
                /\ Visited(tr, p)
                /\ AllVisited(tr, LoopPaths(p))
                /\ Inner(tr, p) = Subs(tr, LoopPaths(p))
                /\ NodeAt(ast, p).kind = "DoWhile" =>
                     /\ NodeAt(ast, p \o <<1>>).cat = "Stmt"
                     /\ NodeAt(ast, p \o <<2>>).cat = "Expr"
                /\ NodeAt(ast, p).kind \in {"For", "ForIn", "ForOf"} => ~Touched(tr, p \o <<1>>)

\* A finished walk over a For whose head holds an expression and whose
\* condition and update are present.
C10_Witness ==
    \E w \in Walkers :
        /\ Returned(w)
        /\ \E p \in Entered(Trace(w), "Stmt", {"For"}) :
            /\ NodeAt(ast, p \o <<1>>).kind = "Expr"
            /\ IsSome(NodeAt(ast, p \o <<2>>))
            /\ IsSome(NodeAt(ast, p \o <<3>>))

\* The paths of the initializers of the declarators of the node at p, in order.
InitPaths(p) ==
    LET n == NodeAt(ast, p) IN
    Concat([i \in 1..Len(n.kids) |->
              IF IsSome(n.kids[i].kids[2]) THEN <<p \o <<i, 2>>>> ELSE <<>>])

\* C4: after a walk, the hook calls between the enter and the exit call of
\* a Var statement or a Let declaration are the subtraces of the
\* initializers of its declarators that have one, in declarator order,
\* whatever the shape of the declarator; no hook call is made for a pattern.
C4_Initializers ==
    \A w \in Walkers :
        Returned(w) =>
            LET tr == Trace(w) IN
            \A p \in Entered(tr, "Stmt", {"Var"}) \cup Entered(tr, "Decl", {"Let"}) :
                /\ Visited(tr, p)
                /\ AllVisited(tr, InitPaths(p))
                /\ Inner(tr, p) = Subs(tr, InitPaths(p))
                /\ \A i \in 1..Len(NodeAt(ast, p).kids) : ~Touched(tr, p \o <<i, 1>>)

\* No walker but w changes in this step.
OnlyTouches(w) ==
    \A v \in Walkers \ {w} :
        /\ callbacks'[v] = callbacks[v]
        /\ todo'[v] = todo[v]
        /\ phase'[v] = phase[v]
        /\ result'[v] = result[v]
        /\ seed'[v] = seed[v]

\* C9: with two walkers over one tree, each Callbacks value keeps what its
\* caller put in it and adds only its own walk's hook calls; the two hook
\* traces are always one a prefix of the other and are equal once both have
\* returned; what a walker returns is its own Callbacks value; every step
\* changes the state of one walker only; and the tree never changes.
C9_NoCrossTalk ==
    /\ [](\A w, v \in Walkers :
            /\ IsPrefix(seed[w], callbacks[w])
            /\ Returned(w) => result[w] = callbacks[w] /\ result[w] = seed[w] \o Trace(w)
            /\ IsPrefix(Trace(w), Trace(v)) \/ IsPrefix(Trace(v), Trace(w))
            /\ (Returned(w) /\ Returned(v)) => Trace(w) = Trace(v))
    /\ [][(\E w \in Walkers : OnlyTouches(w)) /\ ast' = ast /\ seed' = seed]_vars

\* One walker has returned while the other, with a different Callbacks
\* value, is in the middle of its walk of the same tree.
C9_Witness ==
    /\ Returned(1)
    /\ phase[2] = "walking"
    /\ seed[1] # seed[2]
    /\ 0 < Len(Trace(2))
    /\ Len(Trace(2)) < Len(Trace(1))

====
